---------------------------- MODULE Spec2Model ----------------------------
(***************************************************************************)
(* Extension placement and delta synchronisation of the browser            *)
(* ExtensionService                                                        *)
(* (src/vs/workbench/services/extensions/browser/extensionService.ts).     *)
(*                                                                         *)
(* State: the running-location table, the retained remote init data, the   *)
(* extension hosts that were created, and the frame of the reconcile pass  *)
(* (_updateExtensionsOnExtHosts) that is in flight.  One action per        *)
(* synchronous stretch of code between two awaits.                         *)
(***************************************************************************)
EXTENDS Integers, Sequences, FiniteSets, TLC

(***************************************************************************)
(* Bounds of the model.                                                    *)
(***************************************************************************)
\* longest capability-tag sequence handed to pickRunningLocation on its own
MaxKinds == 3
\* longest toAdd list of one reconcile pass
MaxAdd == 2
\* longest toRemove list of one reconcile pass
MaxRemove == 1
\* number of full scans in one behaviour
MaxScans == 2

(***************************************************************************)
(* Values.                                                                 *)
(***************************************************************************)
\* const enum ExtensionRunningLocation
None == "None"
LocalWebWorker == "LocalWebWorker"
Remote == "Remote"
ExtensionRunningLocation == {None, LocalWebWorker, Remote}

\* type ExtensionKind = 'ui' | 'workspace' | 'web'
ExtensionKind == {"ui", "workspace", "web"}

\* Map.get of a key that has no entry
Undefined == "undefined"

\* The extensions of the model, by the key ExtensionIdentifier.toKey gives
\* (identifiers are kept in their normalised form).
Identifiers == {"e1", "e2"}

\* getExtensionKind(manifest, productService, configService): the declared kinds of
\* each extension, in declared order.  e1 declares one kind, e2 declares two.
getExtensionKind(extension) ==
    IF extension.identifier = "e1" THEN <<"ui">> ELSE <<"web", "ui">>

\* An IExtensionDescription: its identifier and whether its location has the
\* vscode-remote scheme.
Description(id, isRemote) == [identifier |-> id, isRemote |-> isRemote]
Descriptions == {Description(id, r) : id \in Identifiers, r \in BOOLEAN}

(***************************************************************************)
(* Sequences and maps.                                                     *)
(***************************************************************************)
Range(s) == {s[i] : i \in DOMAIN s}
SeqsUpTo(S, n) == UNION {[1..k -> S] : k \in 0..n}
NoRepeat(s) == \A i, j \in DOMAIN s : i # j => s[i] # s[j]
Ids(exts) == {exts[i].identifier : i \in DOMAIN exts}

\* Map<string, ExtensionRunningLocation> as a function on the keys that have an entry
EmptyMap == [k \in {} |-> None]
MapGet(m, k) == IF k \in DOMAIN m THEN m[k] ELSE Undefined
MapSet(m, k, v) == [x \in (DOMAIN m) \cup {k} |-> IF x = k THEN v ELSE m[x]]
MapDelete(m, k) == [x \in (DOMAIN m) \ {k} |-> m[x]]

(***************************************************************************)
(* pickRunningLocation                                                     *)
(***************************************************************************)
\* bug variant: the 'ui' rule forgets to ask whether the extension is installed remotely
RECURSIVE pickRunningLocationUiAnywhere(_, _, _)
pickRunningLocationUiAnywhere(extensionKinds, isInstalledLocally, isInstalledRemotely) ==
    IF extensionKinds = <<>> THEN None
    ELSE LET extensionKind == Head(extensionKinds) IN
         IF extensionKind = "ui" THEN Remote
         ELSE IF extensionKind = "workspace" /\ isInstalledRemotely THEN Remote
         ELSE IF extensionKind = "web" /\ isInstalledLocally THEN LocalWebWorker
         ELSE pickRunningLocationUiAnywhere(Tail(extensionKinds), isInstalledLocally, isInstalledRemotely)

RECURSIVE pickRunningLocation(_, _, _)
pickRunningLocation(extensionKinds, isInstalledLocally, isInstalledRemotely) ==
    IF extensionKinds = <<>> THEN None
    ELSE LET extensionKind == Head(extensionKinds) IN
         IF extensionKind = "ui" /\ isInstalledRemotely THEN Remote
         ELSE IF extensionKind = "workspace" /\ isInstalledRemotely THEN Remote
         ELSE IF extensionKind = "web" /\ isInstalledLocally THEN LocalWebWorker
         ELSE pickRunningLocation(Tail(extensionKinds), isInstalledLocally, isInstalledRemotely)

(***************************************************************************)
(* determineRunningLocation, _determineRunningLocation,                    *)
(* filterByRunningLocation                                                 *)
(***************************************************************************)
\* bug variant: the flags come from the location of the record being written, not
\* from the membership of its identifier in the two catalogs
RECURSIVE SetAllByOwnLocation(_, _, _, _, _)
SetAllByOwnLocation(runningLocation, extensions, allExtensionKinds, localExtensionsSet, remoteExtensionsSet) ==
    IF extensions = <<>> THEN runningLocation
    ELSE LET key == Head(extensions).identifier
             isInstalledLocally == ~Head(extensions).isRemote
             isInstalledRemotely == Head(extensions).isRemote
             extensionKinds == IF key \in DOMAIN allExtensionKinds THEN allExtensionKinds[key] ELSE <<>>
         IN SetAllByOwnLocation(MapSet(runningLocation, key,
                          pickRunningLocation(extensionKinds, isInstalledLocally, isInstalledRemotely)),
                   Tail(extensions), allExtensionKinds, localExtensionsSet, remoteExtensionsSet)

\* runningLocation.set(key, pick(ext)) for every extension of a list, in list order
RECURSIVE SetAll(_, _, _, _, _)
SetAll(runningLocation, extensions, allExtensionKinds, localExtensionsSet, remoteExtensionsSet) ==
    IF extensions = <<>> THEN runningLocation
    ELSE LET key == Head(extensions).identifier
             isInstalledLocally == key \in localExtensionsSet
             isInstalledRemotely == key \in remoteExtensionsSet
             extensionKinds == IF key \in DOMAIN allExtensionKinds THEN allExtensionKinds[key] ELSE <<>>
         IN SetAll(MapSet(runningLocation, key,
                          pickRunningLocation(extensionKinds, isInstalledLocally, isInstalledRemotely)),
                   Tail(extensions), allExtensionKinds, localExtensionsSet, remoteExtensionsSet)

\* bug variant: an extension counts as installed remotely whenever a remote is there
determineRunningLocationAnyRemote(localExtensions, remoteExtensions, allExtensionKinds, hasRemote) ==
    LET localExtensionsSet == Ids(localExtensions)
        remoteExtensionsSet == IF hasRemote THEN Identifiers ELSE Ids(remoteExtensions)
        afterLocal == SetAll(EmptyMap, localExtensions, allExtensionKinds, localExtensionsSet, remoteExtensionsSet)
    IN SetAll(afterLocal, remoteExtensions, allExtensionKinds, localExtensionsSet, remoteExtensionsSet)

\* bug variant: without a remote nothing counts as installed remotely
determineRunningLocationNeedsRemote(localExtensions, remoteExtensions, allExtensionKinds, hasRemote) ==
    LET localExtensionsSet == Ids(localExtensions)
        remoteExtensionsSet == IF hasRemote THEN Ids(remoteExtensions) ELSE {}
        afterLocal == SetAll(EmptyMap, localExtensions, allExtensionKinds, localExtensionsSet, remoteExtensionsSet)
    IN SetAll(afterLocal, remoteExtensions, allExtensionKinds, localExtensionsSet, remoteExtensionsSet)

\* hasRemote is a parameter the function never reads
determineRunningLocation(localExtensions, remoteExtensions, allExtensionKinds, hasRemote) ==
    LET localExtensionsSet == Ids(localExtensions)
        remoteExtensionsSet == Ids(remoteExtensions)
        afterLocal == SetAll(EmptyMap, localExtensions, allExtensionKinds, localExtensionsSet, remoteExtensionsSet)
    IN SetAll(afterLocal, remoteExtensions, allExtensionKinds, localExtensionsSet, remoteExtensionsSet)

\* allExtensionKinds.set(key, getExtensionKind(ext)) for every extension of a list
RECURSIVE SetAllKinds(_, _)
SetAllKinds(allExtensionKinds, extensions) ==
    IF extensions = <<>> THEN allExtensionKinds
    ELSE SetAllKinds(MapSet(allExtensionKinds, Head(extensions).identifier, getExtensionKind(Head(extensions))),
                     Tail(extensions))

_determineRunningLocation(localExtensions, remoteExtensions, hasRemote) ==
    LET allExtensionKinds == SetAllKinds(SetAllKinds(EmptyMap, localExtensions), remoteExtensions)
    IN determineRunningLocation(localExtensions, remoteExtensions, allExtensionKinds, hasRemote)

\* bug variant: every extension that is placed somewhere is kept, whatever host is asked for
filterByRunningLocationNotNone(extensions, runningLocation, desiredRunningLocation) ==
    SelectSeq(extensions, LAMBDA ext : MapGet(runningLocation, ext.identifier) \in {LocalWebWorker, Remote})

filterByRunningLocation(extensions, runningLocation, desiredRunningLocation) ==
    SelectSeq(extensions, LAMBDA ext : MapGet(runningLocation, ext.identifier) = desiredRunningLocation)

(***************************************************************************)
(* The loops of _updateExtensionsOnExtHosts.  A partition is the table     *)
(* together with the two lists the loop fills.                             *)
(***************************************************************************)
\* bug variant: a decision of None is not written to the table
AddStepSkipNone(p, extension) ==
    LET extensionKind == getExtensionKind(extension)
        isRemote == extension.isRemote
        runningLocation == pickRunningLocation(extensionKind, ~isRemote, isRemote)
    IN [table |-> IF runningLocation = None THEN p.table
                  ELSE MapSet(p.table, extension.identifier, runningLocation),
        local |-> IF runningLocation = LocalWebWorker THEN Append(p.local, extension) ELSE p.local,
        remote |-> IF runningLocation = LocalWebWorker THEN p.remote
                   ELSE IF runningLocation = Remote THEN Append(p.remote, extension) ELSE p.remote]

\* one iteration of "for (const extension of toAdd)"
AddStep(p, extension) ==
    LET extensionKind == getExtensionKind(extension)
        isRemote == extension.isRemote
        runningLocation == pickRunningLocation(extensionKind, ~isRemote, isRemote)
    IN [table |-> MapSet(p.table, extension.identifier, runningLocation),
        local |-> IF runningLocation = LocalWebWorker THEN Append(p.local, extension) ELSE p.local,
        remote |-> IF runningLocation = LocalWebWorker THEN p.remote
                   ELSE IF runningLocation = Remote THEN Append(p.remote, extension) ELSE p.remote]

RECURSIVE AddLoop(_, _)
AddLoop(p, toAdd) ==
    IF toAdd = <<>> THEN p ELSE AddLoop(AddStep(p, Head(toAdd)), Tail(toAdd))

\* one iteration of "for (const extensionId of toRemove)"
RemoveStep(p, extensionId) ==
    LET runningLocation == MapGet(p.table, extensionId)
    IN [table |-> MapDelete(p.table, extensionId),
        local |-> IF runningLocation = LocalWebWorker THEN Append(p.local, extensionId) ELSE p.local,
        remote |-> IF runningLocation = LocalWebWorker THEN p.remote
                   ELSE IF runningLocation = Remote THEN Append(p.remote, extensionId) ELSE p.remote]

RECURSIVE RemoveLoop(_, _)
RemoveLoop(p, toRemove) ==
    IF toRemove = <<>> THEN p ELSE RemoveLoop(RemoveStep(p, Head(toRemove)), Tail(toRemove))

\* bug variant: the connection is not asked for
SavesRemoteInitDataEnvOnly(remoteEnv, remoteAgentConnection) == remoteEnv

\* "if (remoteEnv && remoteAgentConnection)": the scan saves remote init data
SavesRemoteInitData(remoteEnv, remoteAgentConnection) == remoteEnv /\ remoteAgentConnection

(***************************************************************************)
(* The registry of extension descriptions (this._registry), as the set of  *)
(* the descriptions registered.                                            *)
(***************************************************************************)
\* this._registry.deltaExtensions(toAdd, toRemove): the added descriptions join,
\* and every description of a removed identifier leaves
deltaExtensions(descriptions, toAdd, toRemove) ==
    {d \in descriptions \cup Range(toAdd) : d.identifier \notin Range(toRemove)}

(***************************************************************************)
(* Inputs.                                                                 *)
(***************************************************************************)
IdentifierOrder == <<"e1", "e2">>

\* what a scanner returns: one description for each identifier of S
ScanResult(S, isRemote) ==
    LET ids == SelectSeq(IdentifierOrder, LAMBDA id : id \in S)
    IN [i \in DOMAIN ids |-> Description(ids[i], isRemote)]

\* every description there is, as one list
AllDescriptions == ScanResult(Identifiers, FALSE) \o ScanResult(Identifiers, TRUE)

LocalScans == {ScanResult(S, FALSE) : S \in SUBSET Identifiers}
RemoteScans == {ScanResult(S, TRUE) : S \in SUBSET Identifiers}

\* this._registry.getAllExtensionDescriptions(): the registered descriptions as a list
getAllExtensionDescriptions(descriptions) ==
    SelectSeq(AllDescriptions, LAMBDA d : d \in descriptions)

\* the toAdd and toRemove lists handed to a reconcile pass
ToAddLists == {s \in SeqsUpTo(Descriptions, MaxAdd) : NoRepeat(s)}
ToRemoveLists == {s \in SeqsUpTo(Identifiers, MaxRemove) : NoRepeat(s)}

(***************************************************************************)
(* State.                                                                  *)
(***************************************************************************)
VARIABLES
    connection,       \* _remoteAgentService.getConnection() is not null
    hosts,            \* the kinds _getExtensionHostManager finds a manager for
    _runningLocation, \* this._runningLocation
    _remoteInitData,  \* this._remoteInitData: null, or the data and the scan that built it
    scanCount,        \* completed runs of _scanAndHandleExtensions
    scan,             \* the last run of _scanAndHandleExtensions: its inputs and its lists
    remoteInit,       \* the last answer of the remote provider's getInitData
    _registry,        \* this._registry: the descriptions registered
    localInit,        \* the last answer of the local provider's getInitData
    catalog,          \* identifiers scanned by the last scan, or added and not removed since
    pc,               \* the reconcile pass: "idle", "awaitLocal", "awaitRemote", "returned"
    toAdd, toRemove,  \* the arguments of the pass
    localToAdd, remoteToAdd, localToRemove, remoteToRemove,
    before,           \* this._runningLocation when the pass began
    localCall,        \* the local host's deltaExtensions call: "none", "pending", "done", "failed"
    remoteCall,       \* the remote host's deltaExtensions call, likewise
    pkKinds, pkLocal, pkRemote, pkResult

pkVars == <<pkKinds, pkLocal, pkRemote, pkResult>>

scanVars == <<_runningLocation, _remoteInitData, scanCount, scan, remoteInit, _registry, localInit>>
passVars == <<pc, toAdd, toRemove, localToAdd, remoteToAdd, localToRemove, remoteToRemove,
              before, localCall, remoteCall>>
vars == <<connection, hosts, catalog, scanVars, passVars, pkVars>>

PickIdle ==
    /\ pkKinds = <<>>
    /\ pkLocal = FALSE
    /\ pkRemote = FALSE
    /\ pkResult = "unset"

\* "private _remoteInitData: IRemoteExtensionHostInitData | null = null"
NullInitData == [isNull |-> TRUE, scan |-> 0, extensions |-> <<>>]

\* the remote provider's getInitData has not answered yet
NoAnswer == [answered |-> FALSE, data |-> NullInitData, scans |-> 0]

\* the local provider's getInitData has not answered yet
NoLocalAnswer == [answered |-> FALSE, autoStart |-> FALSE, extensions |-> <<>>]

NoScan ==
    [localExtensions |-> <<>>, remoteExtensions |-> <<>>, remoteEnv |-> FALSE,
     local |-> <<>>, remote |-> <<>>, toAdd |-> <<>>, toRemove |-> <<>>, repeated |-> FALSE]

\* the state the constructor leaves
Init ==
    /\ connection \in BOOLEAN
    /\ hosts = {}
    /\ catalog = {}
    /\ _runningLocation = EmptyMap
    /\ _remoteInitData = NullInitData
    /\ scanCount = 0
    /\ scan = NoScan
    /\ remoteInit = NoAnswer
    /\ _registry = {}
    /\ localInit = NoLocalAnswer
    /\ pc = "idle"
    /\ toAdd = <<>>
    /\ toRemove = <<>>
    /\ localToAdd = <<>>
    /\ remoteToAdd = <<>>
    /\ localToRemove = <<>>
    /\ remoteToRemove = <<>>
    /\ before = EmptyMap
    /\ localCall = "none"
    /\ remoteCall = "none"
    /\ PickIdle

(***************************************************************************)
(* _createExtensionHosts: the web worker host always, the remote host when *)
(* there is a connection.  A manager exists for each host created.         *)
(***************************************************************************)
_createExtensionHosts ==
    /\ hosts = {}
    /\ hosts' = {LocalWebWorker} \cup (IF connection THEN {Remote} ELSE {})
    /\ UNCHANGED <<connection, catalog, scanVars, passVars, pkVars>>

(***************************************************************************)
(* _scanAndHandleExtensions, from the answers of the three scans on: the   *)
(* code after its only await runs without interruption.  The lists are the *)
(* scanners' answers after _checkEnabledAndProposedAPI.                    *)
(***************************************************************************)
_scanAndHandleExtensions(localExtensions, remoteExtensions, remoteEnv) ==
    /\ scanCount < MaxScans
    /\ LET remoteAgentConnection == connection
           table == _determineRunningLocation(localExtensions, remoteExtensions,
                                              remoteEnv /\ remoteAgentConnection)
           local == filterByRunningLocation(localExtensions, table, LocalWebWorker)
           remote == filterByRunningLocation(remoteExtensions, table, Remote)
       IN /\ _runningLocation' = table
          /\ scan' = [localExtensions |-> localExtensions,
                      remoteExtensions |-> remoteExtensions,
                      remoteEnv |-> remoteEnv,
                      local |-> local,
                      remote |-> remote,
                      \* this._registry.deltaExtensions(remoteExtensions.concat(localExtensions), [])
                      toAdd |-> remote \o local,
                      toRemove |-> <<>>,
                      repeated |-> /\ scanCount > 0
                                   /\ localExtensions = scan.localExtensions
                                   /\ remoteExtensions = scan.remoteExtensions]
          /\ _registry' = deltaExtensions(_registry, remote \o local, <<>>)
          /\ _remoteInitData' =
                IF SavesRemoteInitData(remoteEnv, remoteAgentConnection)
                THEN [isNull |-> FALSE, scan |-> scanCount + 1, extensions |-> remote]
                ELSE _remoteInitData
    /\ scanCount' = scanCount + 1
    /\ catalog' = Ids(localExtensions) \cup Ids(remoteExtensions)
    /\ UNCHANGED <<connection, hosts, remoteInit, localInit, passVars, pkVars>>

(***************************************************************************)
(* getInitData of the remote host's data provider: it waits for            *)
(* whenInstalledExtensionsRegistered, which the first scan releases, and   *)
(* answers this._remoteInitData.  The provider exists once the remote host *)
(* was created.                                                            *)
(***************************************************************************)
RemoteGetInitData ==
    /\ Remote \in hosts
    /\ scanCount > 0
    /\ remoteInit' = [answered |-> TRUE, data |-> _remoteInitData, scans |-> scanCount]
    /\ UNCHANGED <<connection, hosts, catalog, _runningLocation, _remoteInitData, scanCount, scan,
                   _registry, localInit, passVars, pkVars>>

(***************************************************************************)
(* getInitData of the local web worker host's data provider: it waits for  *)
(* getExtensions(), which answers the registered descriptions once the     *)
(* first scan has run, and filters them by the table as it is then.        *)
(***************************************************************************)
\* bug variant: every registered description is handed to the web worker host
LocalGetInitDataUnfiltered ==
    /\ LocalWebWorker \in hosts
    /\ scanCount > 0
    /\ localInit' = [answered |-> TRUE, autoStart |-> TRUE,
                     extensions |-> getAllExtensionDescriptions(_registry)]
    /\ UNCHANGED <<connection, hosts, catalog, _runningLocation, _remoteInitData, scanCount, scan,
                   remoteInit, _registry, passVars, pkVars>>

LocalGetInitData ==
    /\ LocalWebWorker \in hosts
    /\ scanCount > 0
    /\ LET allExtensions == getAllExtensionDescriptions(_registry)
           localWebWorkerExtensions ==
               filterByRunningLocation(allExtensions, _runningLocation, LocalWebWorker)
       IN localInit' = [answered |-> TRUE, autoStart |-> TRUE,
                        extensions |-> localWebWorkerExtensions]
    /\ UNCHANGED <<connection, hosts, catalog, _runningLocation, _remoteInitData, scanCount, scan,
                   remoteInit, _registry, passVars, pkVars>>

(***************************************************************************)
(* _updateExtensionsOnExtHosts                                             *)
(***************************************************************************)
\* bug variant: the call is made without asking whether the remote host has a manager
DispatchRemoteNoManagerCheck(rToAdd, rToRemove) ==
    IF Len(rToAdd) > 0 \/ Len(rToRemove) > 0
    THEN pc' = "awaitRemote" /\ remoteCall' = "pending"
    ELSE pc' = "returned" /\ remoteCall' = "none"

\* bug variant: the call is made whenever the manager exists, also with two empty lists
DispatchRemoteAlways(rToAdd, rToRemove) ==
    IF Remote \in hosts
    THEN pc' = "awaitRemote" /\ remoteCall' = "pending"
    ELSE pc' = "returned" /\ remoteCall' = "none"

\* "if (remoteToAdd.length > 0 || remoteToRemove.length > 0)" and what follows
DispatchRemote(rToAdd, rToRemove) ==
    IF (Len(rToAdd) > 0 \/ Len(rToRemove) > 0) /\ Remote \in hosts
    THEN pc' = "awaitRemote" /\ remoteCall' = "pending"
    ELSE pc' = "returned" /\ remoteCall' = "none"

\* variant: the caller hands over a delta whenever it has one
NoPassInFlightUnchecked == TRUE

\* the caller runs one pass at a time: it hands the next delta to
\* _updateExtensionsOnExtHosts only when the promise of the pass before has settled
NoPassInFlight == pc = "idle"

\* from the call to the first await (or to the return, when no call is made)
_updateExtensionsOnExtHosts(toAdd_, toRemove_) ==
    /\ NoPassInFlight
    /\ LET added == AddLoop([table |-> _runningLocation, local |-> <<>>, remote |-> <<>>], toAdd_)
           removed == RemoveLoop([table |-> added.table, local |-> <<>>, remote |-> <<>>], toRemove_)
       IN /\ _runningLocation' = removed.table
          /\ localToAdd' = added.local
          /\ remoteToAdd' = added.remote
          /\ localToRemove' = removed.local
          /\ remoteToRemove' = removed.remote
          /\ IF (Len(added.local) > 0 \/ Len(removed.local) > 0) /\ LocalWebWorker \in hosts
             THEN pc' = "awaitLocal" /\ localCall' = "pending" /\ remoteCall' = "none"
             ELSE localCall' = "none" /\ DispatchRemote(added.remote, removed.remote)
    /\ toAdd' = toAdd_
    /\ toRemove' = toRemove_
    /\ before' = _runningLocation
    /\ catalog' = (catalog \cup Ids(toAdd_)) \ Range(toRemove_)
    \* the caller has put the delta into the registry before it calls
    /\ _registry' = deltaExtensions(_registry, toAdd_, toRemove_)
    /\ UNCHANGED <<connection, hosts, _remoteInitData, scanCount, scan, remoteInit, localInit, pkVars>>

\* "await localWebWorkerExtensionHost.deltaExtensions(...)" resolves
LocalDeltaResolves ==
    /\ pc = "awaitLocal"
    /\ localCall' = "done"
    /\ DispatchRemote(remoteToAdd, remoteToRemove)
    /\ UNCHANGED <<connection, hosts, catalog, scanVars, toAdd, toRemove, localToAdd, remoteToAdd,
                   localToRemove, remoteToRemove, before, pkVars>>

\* ... rejects: the await throws and the pass ends there
LocalDeltaRejects ==
    /\ pc = "awaitLocal"
    /\ localCall' = "failed"
    /\ pc' = "returned"
    /\ UNCHANGED <<connection, hosts, catalog, scanVars, toAdd, toRemove, localToAdd, remoteToAdd,
                   localToRemove, remoteToRemove, before, remoteCall, pkVars>>

\* "await remoteExtensionHost.deltaExtensions(...)" resolves
RemoteDeltaResolves ==
    /\ pc = "awaitRemote"
    /\ remoteCall' = "done"
    /\ pc' = "returned"
    /\ UNCHANGED <<connection, hosts, catalog, scanVars, toAdd, toRemove, localToAdd, remoteToAdd,
                   localToRemove, remoteToRemove, before, localCall, pkVars>>

\* ... rejects
RemoteDeltaRejects ==
    /\ pc = "awaitRemote"
    /\ remoteCall' = "failed"
    /\ pc' = "returned"
    /\ UNCHANGED <<connection, hosts, catalog, scanVars, toAdd, toRemove, localToAdd, remoteToAdd,
                   localToRemove, remoteToRemove, before, localCall, pkVars>>

\* the promise of the pass has settled and its caller goes on: the frame is gone
PassReturns ==
    /\ pc = "returned"
    /\ pc' = "idle"
    /\ toAdd' = <<>>
    /\ toRemove' = <<>>
    /\ localToAdd' = <<>>
    /\ remoteToAdd' = <<>>
    /\ localToRemove' = <<>>
    /\ remoteToRemove' = <<>>
    /\ before' = EmptyMap
    /\ localCall' = "none"
    /\ remoteCall' = "none"
    /\ UNCHANGED <<connection, hosts, catalog, scanVars, pkVars>>

(***************************************************************************)
(* Specifications.                                                         *)
(***************************************************************************)
Scans ==
    \E localExtensions \in LocalScans, remoteExtensions \in RemoteScans, remoteEnv \in BOOLEAN :
        _scanAndHandleExtensions(localExtensions, remoteExtensions, remoteEnv)

Passes ==
    \E toAdd_ \in ToAddLists, toRemove_ \in ToRemoveLists :
        _updateExtensionsOnExtHosts(toAdd_, toRemove_)

Next ==
    \/ _createExtensionHosts
    \/ Scans
    \/ RemoteGetInitData
    \/ LocalGetInitData
    \/ Passes
    \/ LocalDeltaResolves
    \/ LocalDeltaRejects
    \/ RemoteDeltaResolves
    \/ RemoteDeltaRejects
    \/ PassReturns

Spec == Init /\ [][Next]_vars

\* full scans and the remote host's init data only
NextScan ==
    \/ _createExtensionHosts
    \/ Scans
    \/ RemoteGetInitData

SpecScan == Init /\ [][NextScan]_vars

\* reconcile passes only
NextPass ==
    \/ _createExtensionHosts
    \/ Passes
    \/ LocalDeltaResolves
    \/ LocalDeltaRejects
    \/ RemoteDeltaResolves
    \/ RemoteDeltaRejects
    \/ PassReturns

SpecPass == Init /\ [][NextPass]_vars

\* full scans and reconcile passes, with no extension host created
NextCatalog ==
    \/ Scans
    \/ Passes
    \/ PassReturns

\* ... and no connection to a remote agent
InitCatalog == Init /\ connection = FALSE

SpecCatalog == InitCatalog /\ [][NextCatalog]_vars

\* the service when its first scan has run: what a scan of some catalogs, with no
\* remote environment, leaves of the state the constructor left
InitScanned ==
    \E localExtensions \in LocalScans, remoteExtensions \in RemoteScans :
        LET table == _determineRunningLocation(localExtensions, remoteExtensions, FALSE)
            local == filterByRunningLocation(localExtensions, table, LocalWebWorker)
            remote == filterByRunningLocation(remoteExtensions, table, Remote)
        IN /\ connection \in BOOLEAN
           /\ hosts = {}
           /\ catalog = Ids(localExtensions) \cup Ids(remoteExtensions)
           /\ _runningLocation = table
           /\ _remoteInitData = NullInitData
           /\ scanCount = 1
           /\ scan = [localExtensions |-> localExtensions,
                      remoteExtensions |-> remoteExtensions,
                      remoteEnv |-> FALSE,
                      local |-> local,
                      remote |-> remote,
                      toAdd |-> remote \o local,
                      toRemove |-> <<>>,
                      repeated |-> FALSE]
           /\ remoteInit = NoAnswer
           /\ _registry = deltaExtensions({}, remote \o local, <<>>)
           /\ localInit = NoLocalAnswer
           /\ pc = "idle"
           /\ toAdd = <<>>
           /\ toRemove = <<>>
           /\ localToAdd = <<>>
           /\ remoteToAdd = <<>>
           /\ localToRemove = <<>>
           /\ remoteToRemove = <<>>
           /\ before = EmptyMap
           /\ localCall = "none"
           /\ remoteCall = "none"
           /\ PickIdle

\* reconcile passes and the local web worker host's init data, after the first scan
NextInitData ==
    \/ _createExtensionHosts
    \/ LocalGetInitData
    \/ Passes
    \/ LocalDeltaResolves
    \/ LocalDeltaRejects
    \/ RemoteDeltaResolves
    \/ RemoteDeltaRejects
    \/ PassReturns

SpecInitData == InitScanned /\ [][NextInitData]_vars

\* pickRunningLocation alone, on every input within the bound
InitPick ==
    /\ connection = FALSE
    /\ hosts = {}
    /\ catalog = {}
    /\ _runningLocation = EmptyMap
    /\ _remoteInitData = NullInitData
    /\ scanCount = 0
    /\ scan = NoScan
    /\ remoteInit = NoAnswer
    /\ _registry = {}
    /\ localInit = NoLocalAnswer
    /\ pc = "idle"
    /\ toAdd = <<>>
    /\ toRemove = <<>>
    /\ localToAdd = <<>>
    /\ remoteToAdd = <<>>
    /\ localToRemove = <<>>
    /\ remoteToRemove = <<>>
    /\ before = EmptyMap
    /\ localCall = "none"
    /\ remoteCall = "none"
    /\ pkKinds \in SeqsUpTo(ExtensionKind, MaxKinds)
    /\ pkLocal \in BOOLEAN
    /\ pkRemote \in BOOLEAN
    /\ pkResult = "unset"

Pick ==
    /\ pkResult = "unset"
    /\ pkResult' = pickRunningLocation(pkKinds, pkLocal, pkRemote)
    /\ UNCHANGED <<connection, hosts, catalog, scanVars, passVars, pkKinds, pkLocal, pkRemote>>

NextPick == Pick

SpecPick == InitPick /\ [][NextPick]_vars

(***************************************************************************)
(* Properties.                                                             *)
(***************************************************************************)
\* a rule of the scan matches this kind under these flags
Matches(extensionKind, isInstalledLocally, isInstalledRemotely) ==
    \/ extensionKind \in {"ui", "workspace"} /\ isInstalledRemotely
    \/ extensionKind = "web" /\ isInstalledLocally

\* first match wins: the decision of the first kind that matches, None without one
FirstMatch(extensionKinds, isInstalledLocally, isInstalledRemotely) ==
    LET hits == {i \in DOMAIN extensionKinds :
                    Matches(extensionKinds[i], isInstalledLocally, isInstalledRemotely)}
    IN IF hits = {} THEN None
       ELSE LET first == CHOOSE i \in hits : \A j \in hits : i <= j
            IN IF extensionKinds[first] = "web" THEN LocalWebWorker ELSE Remote

\* C1: on every kind sequence and every pair of flags pickRunningLocation returns
\* the decision of the first matching kind in declared order, always one of the
\* three locations; [web, ui] installed only locally gives LocalWebWorker.
C1_PickIsFirstMatch ==
    pkResult # "unset" =>
        /\ pkResult \in ExtensionRunningLocation
        /\ pkResult = FirstMatch(pkKinds, pkLocal, pkRemote)
        /\ (pkKinds = <<"web", "ui">> /\ pkLocal /\ ~pkRemote => pkResult = LocalWebWorker)

C1_Witness ==
    /\ pkKinds = <<"web", "ui">>
    /\ pkLocal
    /\ ~pkRemote
    /\ pkResult = LocalWebWorker

\* the last scan saw a remote: "Boolean(remoteEnv && remoteAgentConnection)"
HasRemote == scan.remoteEnv /\ connection

DeclaresOnlyUi(id) == getExtensionKind(Description(id, FALSE)) = <<"ui">>

\* C2, as claimed: after a scan that saw a remote, every extension declaring exactly
\* [ui] that is in the local catalog is placed on the remote host.
C2_UiWithRemoteIsRemote ==
    \A id \in Identifiers :
        (scanCount > 0 /\ HasRemote /\ DeclaresOnlyUi(id) /\ id \in Ids(scan.localExtensions))
            => MapGet(_runningLocation, id) = Remote

\* C2, amended: a scan places such an extension on the remote host when it is in the
\* remote catalog as well, gets None when it is not, and is never placed on the
\* local web worker host.
C2_UiRemoteOnlyIfInstalledRemotely ==
    \A id \in Identifiers :
        (scanCount > 0 /\ HasRemote /\ DeclaresOnlyUi(id) /\ id \in Ids(scan.localExtensions))
            => /\ id \in Ids(scan.remoteExtensions) => MapGet(_runningLocation, id) = Remote
               /\ id \notin Ids(scan.remoteExtensions) => MapGet(_runningLocation, id) = None
               /\ MapGet(_runningLocation, id) # LocalWebWorker

C2_Witness ==
    /\ scanCount > 0
    /\ HasRemote
    /\ \E id \in Ids(scan.localExtensions) \cap Ids(scan.remoteExtensions) :
          DeclaresOnlyUi(id) /\ MapGet(_runningLocation, id) = Remote

\* the pass has something for the local host, for the remote host
LocalDelta == Len(localToAdd) > 0 \/ Len(localToRemove) > 0
RemoteDelta == Len(remoteToAdd) > 0 \/ Len(remoteToRemove) > 0

\* C3: when a pass with a delta for both hosts and both managers present has
\* returned and one host's call was rejected, the other host's call was issued
\* and has run to its end.
C3_RejectionLeavesOtherCallRunning ==
    (pc = "returned" /\ LocalDelta /\ RemoteDelta /\ hosts = {LocalWebWorker, Remote})
        => /\ localCall = "failed" => remoteCall \in {"done", "failed"}
           /\ remoteCall = "failed" => localCall \in {"done", "failed"}

\* C4: while the local host's call of a pass is outstanding, the remote host's
\* call of that pass (there is a remote delta and a remote manager) has been issued.
C4_RemoteCallIssuedWhileLocalPending ==
    (pc = "awaitLocal" /\ RemoteDelta /\ Remote \in hosts) => remoteCall # "none"

\* the identifiers a table places on a host
PlacedOn(table, location) == {id \in DOMAIN table : table[id] = location}

\* C5: when a pass has returned and a host's call was rejected, the table places
\* on that host exactly the identifiers it placed there when the pass began.
C5_RejectedHostKeepsItsPlacements ==
    pc = "returned" =>
        /\ localCall = "failed" =>
              PlacedOn(_runningLocation, LocalWebWorker) = PlacedOn(before, LocalWebWorker)
        /\ remoteCall = "failed" =>
              PlacedOn(_runningLocation, Remote) = PlacedOn(before, Remote)

\* the decision the pass computes for an added description
DecisionOf(extension) ==
    pickRunningLocation(getExtensionKind(extension), ~extension.isRemote, extension.isRemote)

\* C6: in a pass every added identifier whose decision is not None is in exactly
\* one of the two add lists, and no identifier is in both.
C6_AddedIdentifierOnOneHost ==
    pc # "idle" =>
        /\ \A i \in DOMAIN toAdd :
              DecisionOf(toAdd[i]) # None =>
                  (toAdd[i].identifier \in Ids(localToAdd)) # (toAdd[i].identifier \in Ids(remoteToAdd))
        /\ Ids(localToAdd) \cap Ids(remoteToAdd) = {}

\* C7: a scan that repeats the catalogs of the scan before it hands over nothing:
\* its per-host lists and the lists it gives the registry are empty.
C7_RepeatedScanHandsOverNothing ==
    scan.repeated =>
        /\ scan.local = <<>>
        /\ scan.remote = <<>>
        /\ scan.toAdd = <<>>
        /\ scan.toRemove = <<>>

\* C8: the table has an entry, a running location, for every identifier of the
\* catalog; and an identifier without an entry is treated as None by the readers:
\* filtering for a host never selects it, and removing it routes it to no host.
C8_TableCoversCatalog ==
    /\ \A id \in catalog :
          id \in DOMAIN _runningLocation /\ _runningLocation[id] \in ExtensionRunningLocation
    /\ \A location \in {LocalWebWorker, Remote} :
          Ids(filterByRunningLocation(AllDescriptions, _runningLocation, location))
              \subseteq DOMAIN _runningLocation
    /\ pc # "idle" =>
          \A id \in Range(toRemove) :
              (id \notin DOMAIN before /\ id \notin Ids(toAdd))
                  => id \notin Range(localToRemove) \cup Range(remoteToRemove)

C8_Witness ==
    /\ scanCount > 0
    /\ pc = "returned"
    /\ \E id \in Range(toRemove) : id \notin DOMAIN before /\ id \notin Ids(toAdd)
    /\ \E id \in catalog \cap Ids(toAdd) : _runningLocation[id] = None
    /\ \E id \in catalog \ Ids(toAdd) : _runningLocation[id] # None

\* C9: an answer of the remote provider's getInitData is never null and is the
\* data built by the last scan completed before the answer.
C9_RemoteInitDataFreshAndNotNull ==
    remoteInit.answered =>
        /\ ~remoteInit.data.isNull
        /\ remoteInit.data.scan = remoteInit.scans

\* C10: the last scan saved remote init data exactly if it had both the remote
\* environment and the connection, and the data's extension list is the remote
\* catalog's descriptions whose table entry is Remote, in catalog order.
C10_ScanSavesRemoteInitData ==
    scanCount > 0 =>
        /\ (~_remoteInitData.isNull /\ _remoteInitData.scan = scanCount)
              <=> (scan.remoteEnv /\ connection)
        /\ (scan.remoteEnv /\ connection) =>
              _remoteInitData.extensions =
                  SelectSeq(scan.remoteExtensions,
                            LAMBDA ext : ext.identifier \in PlacedOn(_runningLocation, Remote))

C10_Witness ==
    /\ scanCount > 0
    /\ scan.remoteEnv /\ connection
    /\ _remoteInitData.scan = scanCount
    /\ "e1" \in Ids(scan.localExtensions) \cap Ids(scan.remoteExtensions)
    /\ "e1" \in Ids(_remoteInitData.extensions)

\* the step in which a pass looks up the local host's manager: its first
LocalLookup == pc = "idle" /\ pc' # "idle"

\* the step in which a pass reaches the remote host's part: its first step when the
\* local host is not awaited, or the step that resolves the local host's call
RemoteLookup ==
    \/ pc = "idle" /\ pc' \in {"awaitRemote", "returned"}
    \/ pc = "awaitLocal" /\ localCall' = "done"

\* C11: a host with a delta in the pass and no manager gets no call, the pass goes
\* on without an error of its own, and the other host's delta is dispatched: with
\* no local manager the pass goes straight to the remote host's part; with no
\* remote manager the pass returns, after the local host's call if it had one.
C11_MissingManagerSkipsItsHost ==
    [][/\ (LocalLookup /\ LocalDelta' /\ LocalWebWorker \notin hosts)
            => /\ localCall' = "none"
               /\ (RemoteDelta' /\ Remote \in hosts) => remoteCall' = "pending"
       /\ (LocalLookup /\ LocalDelta' /\ LocalWebWorker \in hosts /\ RemoteDelta' /\ Remote \notin hosts)
            => localCall' = "pending"
       /\ (RemoteLookup /\ RemoteDelta' /\ Remote \notin hosts)
            => /\ remoteCall' = "none"
               /\ pc' = "returned"
               /\ localCall' \in {"none", "done"}]_vars

C11_Witness ==
    /\ pc = "returned"
    /\ RemoteDelta /\ Remote \notin hosts
    /\ LocalDelta /\ localCall = "done"
    /\ remoteCall = "none"

\* the table of a full recompute when the remote catalog is written first and the
\* local catalog last
WrittenRemoteFirst(localExtensions, remoteExtensions) ==
    LET allExtensionKinds == SetAllKinds(SetAllKinds(EmptyMap, localExtensions), remoteExtensions)
        localExtensionsSet == Ids(localExtensions)
        remoteExtensionsSet == Ids(remoteExtensions)
        afterRemote == SetAll(EmptyMap, remoteExtensions, allExtensionKinds,
                              localExtensionsSet, remoteExtensionsSet)
    IN SetAll(afterRemote, localExtensions, allExtensionKinds, localExtensionsSet, remoteExtensionsSet)

\* C13: the table of a scan does not depend on which catalog is written last (an
\* identifier of both catalogs gets one decision from both writes), and a scan
\* that repeats the catalogs of the scan before it leaves the table as it was.
C13_TableIndependentOfWriteOrder ==
    /\ [](scanCount > 0 =>
            _runningLocation = WrittenRemoteFirst(scan.localExtensions, scan.remoteExtensions))
    /\ [][(scanCount' # scanCount /\ scan'.repeated) => _runningLocation' = _runningLocation]_vars

C13_Witness ==
    /\ scan.repeated
    /\ Ids(scan.localExtensions) \cap Ids(scan.remoteExtensions) = Identifiers
    /\ MapGet(_runningLocation, "e1") = Remote
    /\ MapGet(_runningLocation, "e2") = LocalWebWorker

\* C14: after a scan the extensions handed to the local web worker host and those
\* handed to the remote host have no identifier in common, also for an identifier
\* that is in both catalogs.
C14_ScanTargetsDisjoint ==
    scanCount > 0 => Ids(scan.local) \cap Ids(scan.remote) = {}

C14_Witness ==
    /\ scanCount > 0
    /\ Ids(scan.localExtensions) \cap Ids(scan.remoteExtensions) = Identifiers
    /\ Ids(scan.local) = {"e2"}
    /\ Ids(scan.remote) = {"e1"}

\* C15: in a pass every removed identifier is in the remove list of the host the
\* table placed it on when the pass began, and in no remove list if it had no
\* entry or an entry of None then; also when the identifier is added in the pass.
C15_RemovedRoutedByPreviousPlacement ==
    pc # "idle" =>
        \A id \in Range(toRemove) :
            /\ id \in Range(localToRemove) <=> MapGet(before, id) = LocalWebWorker
            /\ id \in Range(remoteToRemove) <=> MapGet(before, id) = Remote

\* C16: for every record of the catalogs of a scan, the decision the incremental
\* path computes for the record equals the entry the scan gave its identifier.
C16_IncrementalDecisionIsScanDecision ==
    scanCount > 0 =>
        /\ \A i \in DOMAIN scan.localExtensions :
              DecisionOf(scan.localExtensions[i])
                  = MapGet(_runningLocation, scan.localExtensions[i].identifier)
        /\ \A i \in DOMAIN scan.remoteExtensions :
              DecisionOf(scan.remoteExtensions[i])
                  = MapGet(_runningLocation, scan.remoteExtensions[i].identifier)

\* the descriptions of a list whose decision is None
DecidedNone(extensions) == {extensions[i] : i \in {j \in DOMAIN extensions : DecisionOf(extensions[j]) = None}}

\* C17: in a pass an added description whose decision is None is in no add list,
\* a host is called only with a non-empty add or remove list, and a host that was
\* called in the pass is not called again in it.
C17_NoneDroppedOneCallPerHost ==
    /\ [](pc # "idle" =>
            /\ DecidedNone(toAdd) \cap (Range(localToAdd) \cup Range(remoteToAdd)) = {}
            /\ localCall # "none" => LocalDelta
            /\ remoteCall # "none" => RemoteDelta)
    /\ [][/\ localCall' = "pending" => localCall \in {"none", "pending"}
          /\ remoteCall' = "pending" => remoteCall \in {"none", "pending"}]_vars

C17_Witness ==
    /\ pc = "returned"
    /\ DecidedNone(toAdd) # {}
    /\ localCall = "done"
    /\ Remote \in hosts /\ ~RemoteDelta /\ remoteCall = "none"

\* the last description of a list with this identifier
LastOf(extensions, id) ==
    LET last == CHOOSE i \in DOMAIN extensions :
                    /\ extensions[i].identifier = id
                    /\ \A j \in DOMAIN extensions : j > i => extensions[j].identifier # id
    IN extensions[last]

\* C18: when a pass has partitioned its lists, every added identifier has the
\* decision of its added description (the last one, if it was added twice) as its
\* entry, also when it is removed in the same pass, and every identifier removed
\* and not added has no entry.
C18_PartitionLeavesAddedEntries ==
    pc # "idle" =>
        /\ \A id \in Ids(toAdd) :
              MapGet(_runningLocation, id) = DecisionOf(LastOf(toAdd, id))
        /\ \A id \in Range(toRemove) \ Ids(toAdd) : id \notin DOMAIN _runningLocation

\* C19: the table a scan leaves is the table the recompute gives for the other
\* value of hasRemote; an extension declaring [ui] that is in the remote catalog
\* is placed on the remote host whatever hasRemote was.
C19_HasRemoteChangesNoDecision ==
    scanCount > 0 =>
        /\ _runningLocation =
              _determineRunningLocation(scan.localExtensions, scan.remoteExtensions, ~HasRemote)
        /\ \A id \in Ids(scan.remoteExtensions) :
              DeclaresOnlyUi(id) => MapGet(_runningLocation, id) = Remote

C19_Witness ==
    /\ scanCount > 0
    /\ ~HasRemote
    /\ "e1" \in Ids(scan.remote)
    /\ MapGet(_runningLocation, "e1") = Remote

\* what a pass partitions: the table and the lists of its frame
partitioned == <<_runningLocation, toAdd, toRemove, localToAdd, remoteToAdd,
                 localToRemove, remoteToRemove, before>>

RegisteredOnLocalWebWorker ==
    {d \in _registry : MapGet(_runningLocation, d.identifier) = LocalWebWorker}

\* the add delta of the pass for the local host was skipped: no manager was there
LocalAddSkipped == pc = "returned" /\ Len(localToAdd) > 0 /\ localCall = "none"

=============================================================================
